---- MODULE Spec2Model ----
(***************************************************************************)
(* Model of the benchmark harness core, src/lib/src/benchmark.rs:          *)
(* discovery (Benchmark::new, load_all), artifact paths (bin_path,         *)
(* result_path), compilation (compile, compile_moonbit, compile_all),      *)
(* execution (run_cmd, run, run_all) and the timing driver                 *)
(* (run_hyperfine_all).                                                    *)
(*                                                                         *)
(* The harness is single threaded and every subprocess is awaited, so an   *)
(* operation is one atomic action.  What the file system and the external  *)
(* programs answer is not decided by the harness: every operation is       *)
(* therefore modelled as the SET of its possible outcomes, one per answer  *)
(* of the environment, and the action picks one of them.  An outcome       *)
(* records the returned Result, the external steps that were started, in   *)
(* order, and the directories that exist afterwards.                       *)
(***************************************************************************)
EXTENDS Integers, Sequences, FiniteSets, TLC

VARIABLES
    arch,       \* host architecture the harness was built for (cfg(target_arch))
    dirs,       \* the directories of the output tree that exist on disk
    bench,      \* the Benchmark value under study, NoBench before construction
    last        \* the last completed operation: its inputs and its outcome

vars == <<arch, dirs, bench, last>>

-----------------------------------------------------------------------------
(* Bounds of the model *)

MaxFiles == 2       \* entries in a benchmark directory listing
MaxSuite == 3       \* entries in the suite root listing

-----------------------------------------------------------------------------
(* Option, Result, byte strings and OS strings *)

None == [some |-> FALSE]
Some(x) == [some |-> TRUE, v |-> x]

Ok(x) == [ok |-> TRUE, val |-> x]
Err(e) == [ok |-> FALSE, err |-> e]

Range(s) == {s[i] : i \in 1..Len(s)}

\* Vec::contains / slice::contains
Contains(s, x) == \E i \in 1..Len(s) : s[i] = x

\* all sequences over S of length at most n
SeqsUpTo(S, n) == UNION {[1..k -> S] : k \in 0..n}

\* An OsStr or a captured byte stream: its content and whether it is valid UTF-8.
Raw(t) == [utf8 |-> TRUE, text |-> t]
Garbled(t) == [utf8 |-> FALSE, text |-> t]

\* OsStr::to_str: the text when it is valid Unicode, None otherwise
ToStr(os) == IF os.utf8 THEN Some(os.text) ELSE None

\* str::from_utf8(bytes).unwrap_or("")
Utf8OrEmpty(bytes) == IF bytes.utf8 THEN bytes.text ELSE ""

-----------------------------------------------------------------------------
(* Paths: a PathBuf is the sequence of its components *)

Join(p, c) == Append(p, c)

\* position of the last '.' of a file name that is not its first character, 0 if none
LastDot(s) ==
    LET dots == {i \in 2..Len(s) : SubSeq(s, i, i) = "."}
    IN  IF dots = {} THEN 0 ELSE CHOOSE i \in dots : \A j \in dots : j <= i

\* Path::file_stem of a file name
FileStem(s) == IF LastDot(s) = 0 THEN s ELSE SubSeq(s, 1, LastDot(s) - 1)

\* PathBuf::set_extension: the file stem of the last component, '.', the extension
SetExtension(p, ext) ==
    [p EXCEPT ![Len(p)] = FileStem(p[Len(p)]) \o "." \o ext]

\* Path::to_str / Display of a path whose components are valid Unicode
PathStr(p) ==
    LET RECURSIVE Go(_)
        Go(i) == IF i = 1 THEN p[1] ELSE Go(i - 1) \o "/" \o p[i]
    IN  IF Len(p) = 0 THEN "" ELSE Go(Len(p))

-----------------------------------------------------------------------------
(* Collaborators outside benchmark.rs: langs.rs, paths.rs, config.rs *)

Scc == "Scc"
Effekt == "Effekt"
Koka == "Koka"
MoonBit == "MoonBit"
SmlNj == "SmlNj"

\* the variants benchmark.rs names
BenchmarkLanguage == {Scc, Effekt, Koka, MoonBit, SmlNj}

\* BenchmarkLanguage::ext
LangExt(lang) ==
    CASE lang = Scc -> "sc"
      [] lang = Effekt -> "effekt"
      [] lang = Koka -> "kk"
      [] lang = MoonBit -> "mbt"
      [] lang = SmlNj -> "sml"

\* BenchmarkLanguage::suffix
LangSuffix(lang) ==
    CASE lang = Scc -> ""
      [] lang = Effekt -> "effekt"
      [] lang = Koka -> "koka"
      [] lang = MoonBit -> "moonbit"
      [] lang = SmlNj -> "smlnj"

\* BenchmarkLanguage::from_ext: the variant of a source extension, None if unknown
FromExt(ext) ==
    IF \E l \in BenchmarkLanguage : LangExt(l) = ext
    THEN Some(CHOOSE l \in BenchmarkLanguage : LangExt(l) = ext)
    ELSE None

\* BenchmarkLanguage::compile_cmd: the compiler invocation of an ordinary variant
CompileCmd(lang, source_path, heap_size) ==
    [program |-> "compiler:" \o lang,
     args |-> <<PathStr(source_path)>>,
     heap |-> heap_size]

Archs == {"x86_64", "aarch64"}

SUITE_PATH == <<"suite">>
RAW_PATH == <<"target_scc", "raw">>
bin_path_x86 == <<"target_scc", "bin_x86">>
bin_path_aarch == <<"target_scc", "bin_aarch">>

\* The configuration a benchmark gets when its sidecar file is absent
DefaultConfig ==
    [test_args |-> <<>>, args |-> <<>>, runs |-> 10, heap_size |-> None]

\* The sidecar files the model puts on disk
ConfigFiles ==
    { [test_args |-> <<"20", "1">>, args |-> <<"10", "20">>, runs |-> 3,
       heap_size |-> Some(64)] }

\* Config::from_file: the file's content, the defaults when there is no file
ConfigFromFile(file) == IF file.some THEN file.v ELSE DefaultConfig

-----------------------------------------------------------------------------
(* What the environment can hold and answer *)

BenchNames == {"foo", "fib.v2"}

\* extensions a directory entry can have: a known source extension, the
\* configuration extension, an unknown one, one that is not valid Unicode, none
Extensions ==
    {None} \cup {Some(Raw(e)) : e \in {LangExt(l) : l \in BenchmarkLanguage} \cup {"args", "txt"}}
           \cup {Some(Garbled("kk"))}

\* one item of a read_dir iterator: an I/O error or an entry with its extension
DirItems == {[io |-> FALSE]} \cup {[io |-> TRUE, ext |-> x] : x \in Extensions}

Listings == SeqsUpTo(DirItems, MaxFiles)

NoBench == [name |-> ""]

WorkspacePath == <<"target_scc", "moon_workspace">>

BinRoot == IF arch = "x86_64" THEN bin_path_x86 ELSE bin_path_aarch

OutputDirs == {bin_path_x86, bin_path_aarch, RAW_PATH, WorkspacePath}

\* what a spawned child can answer: it cannot be started, or it exits with a
\* status and two captured byte streams
ByteStreams == {Raw("msg"), Garbled("raw")}

ProcOutcomes ==
    {[spawned |-> FALSE, code |-> -1, stdout |-> Raw(""), stderr |-> Raw("")]}
    \cup {[spawned |-> TRUE, code |-> c, stdout |-> o, stderr |-> e] :
            c \in {0, 1}, o \in ByteStreams, e \in ByteStreams}

\* the answers of a benchmark binary: as above, with one error stream
RunOutcomes == {out \in ProcOutcomes : out.stderr = Raw("msg") \/ ~out.spawned}

\* Command::status of a child whose streams are inherited
StatusOutcomes == {[spawned |-> FALSE, code |-> -1], [spawned |-> TRUE, code |-> 0],
                   [spawned |-> TRUE, code |-> 1]}

\* how a child ended: whether it was started, and its exit status
Status(out) == [spawned |-> out.spawned, code |-> out.code]

\* std::process::Output as returned to the caller
Output(out) == [code |-> out.code, stdout |-> out.stdout, stderr |-> out.stderr]

\* the streams compile reads from the Output of a compiler or of the build: it
\* reads them only after a non-zero exit status
Captured(out) ==
    IF out.spawned /\ out.code # 0
    THEN Some([stdout |-> out.stdout, stderr |-> out.stderr])
    ELSE None

\* an outcome of an operation: its Result, the external steps it started, the
\* directories that exist when it returns
Out(res, steps, d) == [res |-> res, steps |-> steps, dirs |-> d]

Unit == "()"

-----------------------------------------------------------------------------
(* Benchmark::new *)

\* A variant of Discovered that forgets the exclusion list.
DiscoveredIgnoringExclusion(ext, exclude_lang, languages) ==
    LET lang == FromExt(ext) IN
        IF lang.some THEN Append(languages, lang.v) ELSE languages

\* lines 47-51: languages after a file with the extension ext was looked at
Discovered(ext, exclude_lang, languages) ==
    LET lang == FromExt(ext) IN
        IF lang.some /\ lang.v \notin exclude_lang
        THEN Append(languages, lang.v)
        ELSE languages

\* A variant of the loop that skips a file whose extension is not valid Unicode,
\* as it skips a file without extension.
RECURSIVE ScanDirSkippingUndecodable(_, _, _, _, _)
ScanDirSkippingUndecodable(base_path, items, i, exclude_lang, languages) ==
    IF i > Len(items) THEN Ok(languages)
    ELSE LET file == items[i] IN
        IF ~file.io
        THEN Err([kind |-> "PathAccess", path |-> base_path, msg |-> "Read file path"])
        ELSE IF ~file.ext.some \/ ~ToStr(file.ext.v).some
        THEN ScanDirSkippingUndecodable(base_path, items, i + 1, exclude_lang, languages)
        ELSE LET ext == ToStr(file.ext.v) IN
            IF ext.v = "args"
            THEN ScanDirSkippingUndecodable(base_path, items, i + 1, exclude_lang, languages)
            ELSE ScanDirSkippingUndecodable(base_path, items, i + 1, exclude_lang,
                                            Discovered(ext.v, exclude_lang, languages))

\* lines 32-52: the loop over the directory listing
RECURSIVE ScanDir(_, _, _, _, _)
ScanDir(base_path, items, i, exclude_lang, languages) ==
    IF i > Len(items) THEN Ok(languages)
    ELSE LET file == items[i] IN
        IF ~file.io
        THEN Err([kind |-> "PathAccess", path |-> base_path, msg |-> "Read file path"])
        ELSE IF ~file.ext.some
        THEN ScanDir(base_path, items, i + 1, exclude_lang, languages)
        ELSE LET ext == ToStr(file.ext.v) IN
            IF ~ext.some
            THEN Err([kind |-> "PathAccess", path |-> Join(base_path, "<entry>"),
                      msg |-> "Get File Extension (as string)"])
            ELSE IF ext.v = "args"
            THEN ScanDir(base_path, items, i + 1, exclude_lang, languages)
            ELSE ScanDir(base_path, items, i + 1, exclude_lang,
                         Discovered(ext.v, exclude_lang, languages))

\* The benchmark directory as the environment presents it: the sidecar file
\* (or none) and what read_dir answers, an error or the listing.
BenchDirs ==
    [config : {None} \cup {Some(c) : c \in ConfigFiles},
     listing : {Err("io")} \cup {Ok(l) : l \in Listings}]

NewBenchmark(name, dir, exclude_lang) ==
    LET base_path == Join(SUITE_PATH, name)
        config_path == SetExtension(Join(base_path, name), "args")
        config == ConfigFromFile(dir.config)
    IN  IF ~dir.listing.ok
        THEN Err([kind |-> "ReadDir", path |-> base_path])
        ELSE LET scan == ScanDir(base_path, dir.listing.val, 1, exclude_lang, <<>>) IN
            IF ~scan.ok THEN scan
            ELSE Ok([name |-> name, base_path |-> base_path,
                     languages |-> scan.val, config |-> config])

-----------------------------------------------------------------------------
(* Benchmark::bin_path, Benchmark::result_path *)

\* A variant of create_dir_all that behaves as fs::create_dir: it fails when the
\* directory is already there.
CreateDirFailingOnExisting(p, d) ==
    IF p \in d THEN {[ok |-> FALSE, dirs |-> d]}
    ELSE {[ok |-> TRUE, dirs |-> d \cup {p}], [ok |-> FALSE, dirs |-> d]}

\* fs::create_dir_all: succeeds when the directory exists; otherwise it creates
\* it, or fails (no permission, a file in the way)
CreateDirAll(p, d) ==
    IF p \in d THEN {[ok |-> TRUE, dirs |-> d]}
    ELSE {[ok |-> TRUE, dirs |-> d \cup {p}], [ok |-> FALSE, dirs |-> d]}

\* A variant of bin_path that nests the artifact of the multi-stage pipeline
\* variant instead of Effekt's.
BinPathNestingMoonBit(self, lang, d) ==
    LET bin_name == IF lang # Scc
                    THEN (self.name \o "_") \o LangSuffix(lang)
                    ELSE self.name
        bin_path == IF lang = MoonBit
                    THEN Join(Join(BinRoot, bin_name), self.name)
                    ELSE Join(BinRoot, bin_name)
    IN  { Out(IF c.ok THEN Ok(bin_path)
              ELSE Err([kind |-> "PathAccess", path |-> BinRoot, msg |-> "create bin path"]),
              <<[step |-> "create_dir_all", path |-> BinRoot, ok |-> c.ok]>>, c.dirs)
          : c \in CreateDirAll(BinRoot, d) }

BinPath(self, lang, d) ==
    LET bin_name == IF lang # Scc
                    THEN (self.name \o "_") \o LangSuffix(lang)
                    ELSE self.name
        bin_path == IF lang = Effekt
                    THEN Join(Join(BinRoot, bin_name), self.name)
                    ELSE Join(BinRoot, bin_name)
    IN  { Out(IF c.ok THEN Ok(bin_path)
              ELSE Err([kind |-> "PathAccess", path |-> BinRoot, msg |-> "create bin path"]),
              <<[step |-> "create_dir_all", path |-> BinRoot, ok |-> c.ok]>>, c.dirs)
          : c \in CreateDirAll(BinRoot, d) }

ResultPath(self, d) ==
    LET path == SetExtension(Join(RAW_PATH, self.name), "csv")
    IN  { Out(IF c.ok THEN Ok(path)
              ELSE Err([kind |-> "PathAccess", path |-> RAW_PATH,
                        msg |-> "create hyperfine path"]),
              <<[step |-> "create_dir_all", path |-> RAW_PATH, ok |-> c.ok]>>, c.dirs)
          : c \in CreateDirAll(RAW_PATH, d) }

-----------------------------------------------------------------------------
(* Benchmark::compile, Benchmark::compile_moonbit, Benchmark::compile_all *)

\* fs::copy into the scratch workspace: it fails when the destination directory
\* does not exist, and can fail for other reasons (the source is unreadable)
CopyOutcomes(d) == IF WorkspacePath \in d THEN {TRUE, FALSE} ELSE {FALSE}

\* fs::rename of the built artifact: moved, or an I/O error
RenameOutcomes == {TRUE, FALSE}

\* lines 175-186: after a successful build, compute the artifact path and move
\* the built artifact there
MoonbitInstall(self, steps, d) ==
    LET built == Join(Join(Join(Join(Join(WorkspacePath, "target"), "native"),
                                "release"), "build"), "benchmoon.exe")
    IN  UNION { IF ~bp.res.ok
                THEN {Out(bp.res, steps \o bp.steps, bp.dirs)}
                ELSE LET out_path == bp.res.val
                     IN { Out(IF moved THEN Ok(Unit)
                              ELSE Err([kind |-> "FileAccess", path |-> out_path,
                                        msg |-> "move MoonBit binary"]),
                              (steps \o bp.steps)
                              \o <<[step |-> "rename", from |-> built, to |-> out_path,
                                    ok |-> moved]>>,
                              bp.dirs)
                          : moved \in RenameOutcomes }
              : bp \in BinPath(self, MoonBit, d) }

\* A variant of the pipeline that looks only at whether the build could be
\* started, not at its exit status, before it moves the artifact.
CompileMoonbitIgnoringBuildStatus(self, d) ==
    LET source_path == SetExtension(Join(self.base_path, self.name), LangExt(MoonBit))
        dst_file == Join(WorkspacePath, "working.mbt")
        Cp(ok) == [step |-> "copy", from |-> source_path, to |-> dst_file, ok |-> ok]
        Build(out) == [step |-> "build", program |-> "moon",
                       args |-> <<"build", "--target", "native", "--release">>,
                       cwd |-> WorkspacePath, status |-> Status(out),
                       captured |-> Captured(out)]
    IN  UNION { IF ~copied
                THEN {Out(Err([kind |-> "FileAccess", path |-> dst_file,
                               msg |-> "copy mbt file"]), <<Cp(FALSE)>>, d)}
                ELSE UNION {
                    IF ~out.spawned
                    THEN {Out(Err([kind |-> "Compile", name |-> self.name, lang |-> MoonBit,
                                   stdout |-> "", stderr |-> "io error"]),
                              <<Cp(TRUE), Build(out)>>, d)}
                    ELSE MoonbitInstall(self, <<Cp(TRUE), Build(out)>>, d)
                    : out \in ProcOutcomes }
              : copied \in CopyOutcomes(d) }

\* lines 148-174: copy the source into the workspace, build there, judge the
\* build's exit status
CompileMoonbit(self, d) ==
    LET source_path == SetExtension(Join(self.base_path, self.name), LangExt(MoonBit))
        dst_file == Join(WorkspacePath, "working.mbt")
        Cp(ok) == [step |-> "copy", from |-> source_path, to |-> dst_file, ok |-> ok]
        Build(out) == [step |-> "build", program |-> "moon",
                       args |-> <<"build", "--target", "native", "--release">>,
                       cwd |-> WorkspacePath, status |-> Status(out),
                       captured |-> Captured(out)]
    IN  UNION { IF ~copied
                THEN {Out(Err([kind |-> "FileAccess", path |-> dst_file,
                               msg |-> "copy mbt file"]), <<Cp(FALSE)>>, d)}
                ELSE UNION {
                    IF ~out.spawned
                    THEN {Out(Err([kind |-> "Compile", name |-> self.name, lang |-> MoonBit,
                                   stdout |-> "", stderr |-> "io error"]),
                              <<Cp(TRUE), Build(out)>>, d)}
                    ELSE IF out.code # 0
                    THEN {Out(Err([kind |-> "Compile", name |-> self.name, lang |-> MoonBit,
                                   stdout |-> Utf8OrEmpty(out.stdout),
                                   stderr |-> Utf8OrEmpty(out.stderr)]),
                              <<Cp(TRUE), Build(out)>>, d)}
                    ELSE MoonbitInstall(self, <<Cp(TRUE), Build(out)>>, d)
                    : out \in ProcOutcomes }
              : copied \in CopyOutcomes(d) }

\* lines 132-144: the permission change after a successful Koka compile
KokaFixup(self, lang, steps, d) ==
    UNION { IF ~bp.res.ok
            THEN {Out(bp.res, steps \o bp.steps, bp.dirs)}
            ELSE LET bin_path == bp.res.val
                     Chmod(st) == [step |-> "chmod", program |-> "chmod",
                                   args |-> <<"+x", PathStr(bin_path)>>, status |-> st]
                 IN { Out(IF ~st.spawned
                          THEN Err([kind |-> "FileAccess", path |-> bin_path,
                                    msg |-> "Change file permissions"])
                          ELSE IF st.code # 0
                          THEN Err([kind |-> "PathAccess", path |-> bin_path,
                                    msg |-> "Change file permissions"])
                          ELSE Ok(Unit),
                          (steps \o bp.steps) \o <<Chmod(st)>>, bp.dirs)
                      : st \in StatusOutcomes }
          : bp \in BinPath(self, lang, d) }

\* lines 112-145: compile of a variant that passed the membership test
CompileKnown(self, lang, d) ==
    IF lang = MoonBit
    THEN CompileMoonbit(self, d)
    ELSE LET source_path == SetExtension(Join(self.base_path, self.name), LangExt(lang))
             compile_cmd == CompileCmd(lang, source_path, self.config.heap_size)
             Cc(out) == [step |-> "compile", cmd |-> compile_cmd, status |-> Status(out),
                         captured |-> Captured(out)]
         IN UNION {
                IF ~out.spawned
                THEN {Out(Err([kind |-> "Compile", name |-> self.name, lang |-> lang,
                               stdout |-> "", stderr |-> "io error"]), <<Cc(out)>>, d)}
                ELSE IF out.code # 0
                THEN {Out(Err([kind |-> "Compile", name |-> self.name, lang |-> lang,
                               stdout |-> Utf8OrEmpty(out.stdout),
                               stderr |-> Utf8OrEmpty(out.stderr)]), <<Cc(out)>>, d)}
                ELSE IF lang = Koka
                THEN KokaFixup(self, lang, <<Cc(out)>>, d)
                ELSE {Out(Ok(Unit), <<Cc(out)>>, d)}
                : out \in ProcOutcomes }

\* A variant of compile that dispatches to the MoonBit pipeline before it tests
\* membership.
CompileDispatchingFirst(self, lang, d) ==
    IF lang = MoonBit
    THEN CompileMoonbit(self, d)
    ELSE IF ~Contains(self.languages, lang)
    THEN {Out(Err([kind |-> "UnknownLanguage", op |-> "Compiling", lang |-> lang]), <<>>, d)}
    ELSE CompileKnown(self, lang, d)

Compile(self, lang, d) ==
    IF ~Contains(self.languages, lang)
    THEN {Out(Err([kind |-> "UnknownLanguage", op |-> "Compiling", lang |-> lang]), <<>>, d)}
    ELSE CompileKnown(self, lang, d)

\* one call made by an aggregate operation: the variant, its position in
\* languages, and the outcome of the call
Call(i, lang, o) == [index |-> i, lang |-> lang, res |-> o.res, steps |-> o.steps]

\* an outcome of an aggregate operation: its Result, the calls it made in order,
\* the directories that exist when it returns
Agg(res, calls, d) == [res |-> res, calls |-> calls, dirs |-> d]

\* A variant of the loop that compiles every variant and reports the first
\* error at the end.
RECURSIVE CompileAllKeepingOn(_, _, _, _)
CompileAllKeepingOn(self, i, calls, d) ==
    IF i > Len(self.languages)
    THEN LET failed == {j \in 1..Len(calls) : ~calls[j].res.ok} IN
         {Agg(IF failed = {} THEN Ok(Unit)
              ELSE calls[CHOOSE j \in failed : \A k \in failed : j <= k].res, calls, d)}
    ELSE LET lang == self.languages[i] IN
        UNION { CompileAllKeepingOn(self, i + 1, Append(calls, Call(i, lang, o)), o.dirs)
              : o \in Compile(self, lang, d) }

\* lines 101-104: the loop of compile_all from position i on
RECURSIVE CompileAllFrom(_, _, _, _)
CompileAllFrom(self, i, calls, d) ==
    IF i > Len(self.languages) THEN {Agg(Ok(Unit), calls, d)}
    ELSE LET lang == self.languages[i] IN
        UNION { IF o.res.ok
                THEN CompileAllFrom(self, i + 1, Append(calls, Call(i, lang, o)), o.dirs)
                ELSE {Agg(o.res, Append(calls, Call(i, lang, o)), o.dirs)}
              : o \in Compile(self, lang, d) }

CompileAll(self, d) == CompileAllFrom(self, 1, <<>>, d)

-----------------------------------------------------------------------------
(* Benchmark::run_cmd, Benchmark::run, Benchmark::run_all *)

\* a Command: the program and its argument list
Command(program, args) == [program |-> program, args |-> args]

RunCmd(self, lang, d) ==
    { IF ~bp.res.ok THEN bp
      ELSE Out(Ok(IF lang = SmlNj
                  THEN Command("sml", <<"@SMLload", PathStr(bp.res.val)>>)
                  ELSE Command(PathStr(bp.res.val), <<>>)),
               bp.steps, bp.dirs)
      : bp \in BinPath(self, lang, d) }

\* A variant of the execution that returns whatever was captured, whatever
\* the exit status.
RunExecIgnoringStatus(self, lang, rc, args) ==
    LET cmd == Command(rc.res.val.program, rc.res.val.args \o args)
        Exec(out) == [step |-> "exec", cmd |-> cmd, status |-> Status(out),
                      output |-> Output(out)]
    IN { Out(IF ~out.spawned
             THEN Err([kind |-> "Run", name |-> self.name, lang |-> lang,
                       msg |-> "io error"])
             ELSE Ok(Output(out)),
             Append(rc.steps, Exec(out)), rc.dirs)
         : out \in RunOutcomes }

\* lines 217-230: append the selected arguments to the command that run_cmd
\* built (outcome rc), execute it, judge its exit status
RunExec(self, lang, rc, args) ==
    LET cmd == Command(rc.res.val.program, rc.res.val.args \o args)
        Exec(out) == [step |-> "exec", cmd |-> cmd, status |-> Status(out),
                      output |-> Output(out)]
    IN { Out(IF ~out.spawned
             THEN Err([kind |-> "Run", name |-> self.name, lang |-> lang,
                       msg |-> "io error"])
             ELSE IF out.code # 0
             THEN Err([kind |-> "Run", name |-> self.name, lang |-> lang,
                       msg |-> "Command exited with nonzero exit status"])
             ELSE Ok(Output(out)),
             Append(rc.steps, Exec(out)), rc.dirs)
         : out \in RunOutcomes }

\* A variant of run that always appends the benchmark-mode arguments after
\* the test-mode ones.
RunAppendingBoth(self, lang, test, d) ==
    UNION { IF ~rc.res.ok THEN {rc}
            ELSE RunExec(self, lang, rc,
                         IF test THEN self.config.test_args \o self.config.args
                         ELSE self.config.args)
          : rc \in RunCmd(self, lang, d) }

Run(self, lang, test, d) ==
    UNION { IF ~rc.res.ok THEN {rc}
            ELSE RunExec(self, lang, rc,
                         IF test THEN self.config.test_args ELSE self.config.args)
          : rc \in RunCmd(self, lang, d) }

\* A variant of the loop that stops at the first failure and returns the
\* outputs collected so far.
RECURSIVE RunAllReturningPartial(_, _, _, _, _, _)
RunAllReturningPartial(self, test, i, results, calls, d) ==
    IF i > Len(self.languages) THEN {Agg(Ok(results), calls, d)}
    ELSE LET lang == self.languages[i] IN
        UNION { IF o.res.ok
                THEN RunAllReturningPartial(self, test, i + 1, Append(results, o.res.val),
                                            Append(calls, Call(i, lang, o)), o.dirs)
                ELSE {Agg(Ok(results), Append(calls, Call(i, lang, o)), o.dirs)}
              : o \in Run(self, lang, test, d) }

\* lines 191-195: the loop of run_all from position i on
RECURSIVE RunAllFrom(_, _, _, _, _, _)
RunAllFrom(self, test, i, results, calls, d) ==
    IF i > Len(self.languages) THEN {Agg(Ok(results), calls, d)}
    ELSE LET lang == self.languages[i] IN
        UNION { IF o.res.ok
                THEN RunAllFrom(self, test, i + 1, Append(results, o.res.val),
                                Append(calls, Call(i, lang, o)), o.dirs)
                ELSE {Agg(o.res, Append(calls, Call(i, lang, o)), o.dirs)}
              : o \in Run(self, lang, test, d) }

RunAll(self, test, d) == RunAllFrom(self, test, 1, <<>>, <<>>, d)

-----------------------------------------------------------------------------
(* Benchmark::run_hyperfine_all *)

\* lines 249-252: the call string with every benchmark-mode argument appended
RECURSIVE PushArgs(_, _, _)
PushArgs(call_str, args, i) ==
    IF i > Len(args) THEN call_str
    ELSE PushArgs((call_str \o " ") \o args[i], args, i + 1)

\* lines 257-271: the single invocation of the timing engine
HyperfineInvoke(self, commands, steps, d) ==
    UNION { IF ~rp.res.ok THEN {Out(rp.res, steps \o rp.steps, rp.dirs)}
            ELSE LET command == Command("hyperfine",
                                    (commands \o <<"--runs", ToString(self.config.runs)>>)
                                    \o <<"--warmup", "3", "--export-csv",
                                         PathStr(rp.res.val)>>)
                     Timing(st) == [step |-> "hyperfine", cmd |-> command, status |-> st]
                 IN { Out(IF ~st.spawned
                          THEN Err([kind |-> "Hyperfine", name |-> self.name,
                                    msg |-> "io error"])
                          ELSE Ok(Unit),
                          (steps \o rp.steps) \o <<Timing(st)>>, rp.dirs)
                      : st \in StatusOutcomes }
          : rp \in ResultPath(self, d) }

\* A variant of the loop whose membership test is inverted.
RECURSIVE HyperfineFromRejectingMembers(_, _, _, _, _)
HyperfineFromRejectingMembers(self, i, commands, steps, d) ==
    IF i > Len(self.languages) THEN HyperfineInvoke(self, commands, steps, d)
    ELSE LET lang == self.languages[i] IN
        IF Contains(self.languages, lang)
        THEN {Out(Err([kind |-> "UnknownLanguage", op |-> "Run Hyperfine", lang |-> lang]),
                  steps, d)}
        ELSE UNION {
            IF ~bp.res.ok THEN {Out(bp.res, steps \o bp.steps, bp.dirs)}
            ELSE LET bin_str == ToStr(Raw(PathStr(bp.res.val))) IN
                IF ~bin_str.some
                THEN {Out(Err([kind |-> "PathAccess", path |-> bp.res.val,
                               msg |-> "Path as String"]), steps \o bp.steps, bp.dirs)}
                ELSE LET call_str == IF lang = SmlNj
                                     THEN "sml @SMLload " \o bin_str.v
                                     ELSE bin_str.v
                     IN HyperfineFromRejectingMembers(
                            self, i + 1,
                            Append(commands, PushArgs(call_str, self.config.args, 1)),
                            steps \o bp.steps, bp.dirs)
            : bp \in BinPath(self, lang, d) }

\* lines 235-255: the loop that renders one call string per variant
RECURSIVE HyperfineFrom(_, _, _, _, _)
HyperfineFrom(self, i, commands, steps, d) ==
    IF i > Len(self.languages) THEN HyperfineInvoke(self, commands, steps, d)
    ELSE LET lang == self.languages[i] IN
        IF ~Contains(self.languages, lang)
        THEN {Out(Err([kind |-> "UnknownLanguage", op |-> "Run Hyperfine", lang |-> lang]),
                  steps, d)}
        ELSE UNION {
            IF ~bp.res.ok THEN {Out(bp.res, steps \o bp.steps, bp.dirs)}
            ELSE LET bin_str == ToStr(Raw(PathStr(bp.res.val))) IN
                IF ~bin_str.some
                THEN {Out(Err([kind |-> "PathAccess", path |-> bp.res.val,
                               msg |-> "Path as String"]), steps \o bp.steps, bp.dirs)}
                ELSE LET call_str == IF lang = SmlNj
                                     THEN "sml @SMLload " \o bin_str.v
                                     ELSE bin_str.v
                     IN HyperfineFrom(self, i + 1,
                                      Append(commands, PushArgs(call_str, self.config.args, 1)),
                                      steps \o bp.steps, bp.dirs)
            : bp \in BinPath(self, lang, d) }

RunHyperfineAll(self, d) == HyperfineFrom(self, 1, <<>>, <<>>, d)

-----------------------------------------------------------------------------
(* Benchmark::load_all *)

\* a panic unwinds out of the operation: no Result is returned
Panic(msg) == [ok |-> FALSE, err |-> [kind |-> "panic", msg |-> msg]]

\* A variant of the loop that skips a directory whose Benchmark cannot be
\* constructed and goes on with the next entry.
RECURSIVE LoadAllSkippingFailures(_, _, _, _, _, _, _)
LoadAllSkippingFailures(items, i, exclude_lang, exclude_bench, disk, benchmarks, calls) ==
    IF i > Len(items) THEN [res |-> Ok(benchmarks), calls |-> calls]
    ELSE LET path == items[i] IN
        IF ~path.io
        THEN [res |-> Err([kind |-> "PathAccess", path |-> SUITE_PATH, msg |-> "Read File"]),
              calls |-> calls]
        ELSE LET name == ToStr(path.name) IN
            IF ~name.some
            THEN [res |-> Panic("unwrap on None"), calls |-> calls]
            ELSE IF ~path.is_dir \/ name.v \in exclude_bench
            THEN LoadAllSkippingFailures(items, i + 1, exclude_lang, exclude_bench, disk,
                                         benchmarks, calls)
            ELSE LET benchmark == NewBenchmark(name.v, disk[name.v], exclude_lang)
                     call == [index |-> i, name |-> name.v, res |-> benchmark]
                 IN LoadAllSkippingFailures(items, i + 1, exclude_lang, exclude_bench, disk,
                                            IF benchmark.ok
                                            THEN Append(benchmarks, benchmark.val)
                                            ELSE benchmarks,
                                            Append(calls, call))

\* lines 280-291: the loop over the suite root listing from position i on;
\* disk[name] is the content of the directory suite/name
RECURSIVE LoadAllFrom(_, _, _, _, _, _, _)
LoadAllFrom(items, i, exclude_lang, exclude_bench, disk, benchmarks, calls) ==
    IF i > Len(items) THEN [res |-> Ok(benchmarks), calls |-> calls]
    ELSE LET path == items[i] IN
        IF ~path.io
        THEN [res |-> Err([kind |-> "PathAccess", path |-> SUITE_PATH, msg |-> "Read File"]),
              calls |-> calls]
        ELSE LET name == ToStr(path.name) IN
            IF ~name.some
            THEN [res |-> Panic("unwrap on None"),
                  calls |-> calls]
            ELSE IF ~path.is_dir \/ name.v \in exclude_bench
            THEN LoadAllFrom(items, i + 1, exclude_lang, exclude_bench, disk,
                             benchmarks, calls)
            ELSE LET benchmark == NewBenchmark(name.v, disk[name.v], exclude_lang)
                     call == [index |-> i, name |-> name.v, res |-> benchmark]
                 IN IF ~benchmark.ok
                    THEN [res |-> benchmark, calls |-> Append(calls, call)]
                    ELSE LoadAllFrom(items, i + 1, exclude_lang, exclude_bench, disk,
                                     Append(benchmarks, benchmark.val), Append(calls, call))

LoadAll(exclude_lang, exclude_bench, suite, disk) ==
    IF ~suite.ok
    THEN [res |-> Err([kind |-> "ReadDir", path |-> SUITE_PATH]), calls |-> <<>>]
    ELSE LoadAllFrom(suite.val, 1, exclude_lang, exclude_bench, disk, <<>>, <<>>)

-----------------------------------------------------------------------------
(* The state machine *)

\* The state before any operation: the build's architecture, the directories
\* that already exist, no Benchmark yet.
InitWith(archs, dirsets) ==
    /\ arch \in archs
    /\ dirs \in dirsets
    /\ bench = NoBench
    /\ last = [op |-> "init"]

\* Benchmark::new, the first operation, on some directory content with some
\* exclusion list; the value it returns becomes the benchmark under study
New ==
    /\ last.op = "init"
    /\ \E name \in BenchNames, dir \in BenchDirs, exclude_lang \in SUBSET BenchmarkLanguage :
         LET res == NewBenchmark(name, dir, exclude_lang) IN
           /\ bench' = IF res.ok THEN res.val ELSE NoBench
           /\ last' = [op |-> "new", res |-> res]
    /\ UNCHANGED <<arch, dirs>>

\* Benchmark::new, with the directory content and the exclusion list kept
Discover ==
    /\ last.op = "init"
    /\ \E name \in BenchNames, dir \in BenchDirs, exclude_lang \in SUBSET BenchmarkLanguage :
         LET res == NewBenchmark(name, dir, exclude_lang) IN
           /\ bench' = IF res.ok THEN res.val ELSE NoBench
           /\ last' = [op |-> "new", name |-> name, dir |-> dir,
                       exclude_lang |-> exclude_lang, res |-> res]
    /\ UNCHANGED <<arch, dirs>>

\* self.bin_path(lang); when the previous operation was bin_path for the same
\* variant, its result is kept
DoBinPath ==
    /\ bench # NoBench
    /\ \E lang \in BenchmarkLanguage : \E o \in BinPath(bench, lang, dirs) :
         /\ last' = [op |-> "bin_path", lang |-> lang, res |-> o.res, steps |-> o.steps,
                     prev |-> IF last.op = "bin_path" /\ last.lang = lang
                              THEN Some(last.res) ELSE None]
         /\ dirs' = o.dirs
    /\ UNCHANGED <<arch, bench>>

\* self.result_path()
DoResultPath ==
    /\ bench # NoBench
    /\ \E o \in ResultPath(bench, dirs) :
         /\ last' = [op |-> "result_path", res |-> o.res, steps |-> o.steps]
         /\ dirs' = o.dirs
    /\ UNCHANGED <<arch, bench>>

\* self.compile(lang), for any variant, discovered or not; when the previous
\* operation was a successful compile of the same variant, its steps are kept
DoCompile ==
    /\ bench # NoBench
    /\ \E lang \in BenchmarkLanguage : \E o \in Compile(bench, lang, dirs) :
         /\ last' = [op |-> "compile", lang |-> lang, res |-> o.res, steps |-> o.steps,
                     prev |-> IF last.op = "compile" /\ last.lang = lang /\ last.res.ok
                              THEN Some(last.steps) ELSE None]
         /\ dirs' = o.dirs
    /\ UNCHANGED <<arch, bench>>

\* self.compile_all()
DoCompileAll ==
    /\ bench # NoBench
    /\ \E o \in CompileAll(bench, dirs) :
         /\ last' = [op |-> "compile_all", res |-> o.res, calls |-> o.calls]
         /\ dirs' = o.dirs
    /\ UNCHANGED <<arch, bench>>

\* self.run(lang, test)
DoRun ==
    /\ bench # NoBench
    /\ \E lang \in BenchmarkLanguage, test \in BOOLEAN : \E o \in Run(bench, lang, test, dirs) :
         /\ last' = [op |-> "run", lang |-> lang, test |-> test, res |-> o.res,
                     steps |-> o.steps]
         /\ dirs' = o.dirs
    /\ UNCHANGED <<arch, bench>>

\* self.run_all(test)
DoRunAll ==
    /\ bench # NoBench
    /\ \E test \in BOOLEAN : \E o \in RunAll(bench, test, dirs) :
         /\ last' = [op |-> "run_all", test |-> test, res |-> o.res, calls |-> o.calls]
         /\ dirs' = o.dirs
    /\ UNCHANGED <<arch, bench>>

\* self.run_hyperfine_all()
DoRunHyperfineAll ==
    /\ bench # NoBench
    /\ \E o \in RunHyperfineAll(bench, dirs) :
         /\ last' = [op |-> "run_hyperfine_all", res |-> o.res, steps |-> o.steps]
         /\ dirs' = o.dirs
    /\ UNCHANGED <<arch, bench>>

\* The suite root as the environment presents it: names that are benchmark
\* directories, a plain file, a name that is not valid Unicode
SuiteNames == {Raw(n) : n \in BenchNames} \cup {Raw("README"), Garbled("x")}

SuiteItems ==
    {[io |-> FALSE]} \cup {[io |-> TRUE, name |-> n, is_dir |-> b] :
                             n \in SuiteNames, b \in BOOLEAN}

\* listings of the suite root: no two entries of a directory share a name
SuiteListings ==
    {l \in SeqsUpTo(SuiteItems, MaxSuite) :
        \A i, j \in 1..Len(l) : (i # j /\ l[i].io /\ l[j].io) => l[i].name # l[j].name}

\* contents of the directories under the suite root
SuiteDirs ==
    { [config |-> None, listing |-> Err("io")],
      [config |-> None, listing |-> Ok(<<[io |-> TRUE, ext |-> Some(Garbled("kk"))]>>)],
      [config |-> Some(CHOOSE c \in ConfigFiles : TRUE),
       listing |-> Ok(<<[io |-> TRUE, ext |-> Some(Raw("args"))],
                        [io |-> TRUE, ext |-> Some(Raw("kk"))],
                        [io |-> TRUE, ext |-> Some(Raw("sc"))]>>)] }

\* Benchmark::load_all on some suite root with some exclusion lists
DoLoadAll ==
    /\ last.op = "init"
    /\ \E suite \in {Err("io")} \cup {Ok(l) : l \in SuiteListings},
          disk \in [BenchNames \cup {"README"} -> SuiteDirs],
          exclude_lang \in {{Koka}},
          exclude_bench \in SUBSET (BenchNames \cup {"README"}) :
         LET o == LoadAll(exclude_lang, exclude_bench, suite, disk) IN
           last' = [op |-> "load_all", suite |-> suite, disk |-> disk,
                    exclude_lang |-> exclude_lang, exclude_bench |-> exclude_bench,
                    res |-> o.res, calls |-> o.calls]
    /\ UNCHANGED <<arch, dirs, bench>>

\* Discovery alone
InitDiscover == InitWith({"x86_64"}, {{}})
SpecDiscover == InitDiscover /\ [][Discover]_vars

\* Suite loading alone
InitSuite == InitWith({"x86_64"}, {{}})
SpecSuite == InitSuite /\ [][DoLoadAll]_vars

\* Path derivation on both architectures
InitPaths == InitWith(Archs, SUBSET OutputDirs) /\ dirs \subseteq {BinRoot, RAW_PATH}
NextPaths == New \/ DoBinPath \/ DoResultPath
SpecPaths == InitPaths /\ [][NextPaths]_vars

\* Compilation
InitCompile == InitWith({"x86_64"}, SUBSET {bin_path_x86, WorkspacePath})
NextCompile == New \/ DoCompile \/ DoCompileAll
SpecCompile == InitCompile /\ [][NextCompile]_vars

\* Execution
InitRun == InitWith({"x86_64"}, SUBSET {bin_path_x86})
NextRun == New \/ DoRun \/ DoRunAll
SpecRun == InitRun /\ [][NextRun]_vars

\* Timing
InitTime == InitWith({"x86_64"}, SUBSET {bin_path_x86, RAW_PATH})
NextTime == New \/ DoRunHyperfineAll
SpecTime == InitTime /\ [][NextTime]_vars

-----------------------------------------------------------------------------
(* Properties *)

\* C1: compile_all compiles the variants in the order of languages and stops at
\* the first failure: the calls it made are compile(languages[1]),
\* compile(languages[2]), ... with no gap; every call but the last succeeded;
\* when a call fails it is the last one, its error is what compile_all returns
\* and no step of a later variant was started; compile_all returns success
\* only when it called compile for every variant and every call succeeded.
CompileAllStopsAtFirstFailure ==
    last.op = "compile_all" =>
        LET n == Len(bench.languages)
            calls == last.calls
            k == Len(calls)
        IN  /\ k <= n
            /\ \A i \in 1..k : calls[i].index = i /\ calls[i].lang = bench.languages[i]
            /\ \A i \in 1..(k - 1) : calls[i].res.ok
            /\ last.res.ok <=> (k = n /\ \A i \in 1..k : calls[i].res.ok)
            /\ ~last.res.ok => (k >= 1 /\ ~calls[k].res.ok /\ last.res = calls[k].res)

\* C1 witness: compile_all failed at a variant that is not the last one, after
\* the compiler of that variant was started
CompileAllStoppedEarly ==
    /\ last.op = "compile_all"
    /\ ~last.res.ok
    /\ Len(last.calls) < Len(bench.languages)
    /\ last.calls[Len(last.calls)].steps # <<>>

\* C2: run_all runs the variants in the order of languages; it returns outputs
\* only when every run succeeded, and then exactly one per variant, the i-th
\* being the output of the run of languages[i]; when a run fails it is the
\* last call made, run_all returns the error of that run (of kind Run when the
\* process could not be started or exited non-zero) and nothing else, and no
\* later variant is run.
RunAllStopsAtFirstFailure ==
    last.op = "run_all" =>
        LET n == Len(bench.languages)
            calls == last.calls
            k == Len(calls)
        IN  /\ k <= n
            /\ \A i \in 1..k : calls[i].index = i /\ calls[i].lang = bench.languages[i]
            /\ \A i \in 1..(k - 1) : calls[i].res.ok
            /\ last.res.ok <=> (k = n /\ \A i \in 1..k : calls[i].res.ok)
            /\ last.res.ok =>
                 /\ Len(last.res.val) = n
                 /\ \A i \in 1..n :
                      /\ last.res.val[i] = calls[i].res.val
                      /\ last.res.val[i] = calls[i].steps[Len(calls[i].steps)].output
            /\ ~last.res.ok =>
                 /\ k >= 1 /\ ~calls[k].res.ok
                 /\ last.res = calls[k].res
                 /\ DOMAIN last.res = {"ok", "err"}
                 /\ (\E j \in 1..Len(calls[k].steps) : calls[k].steps[j].step = "exec")
                        => last.res.err.kind = "Run"

\* C2 witness: the first run succeeded, the second run exited non-zero, and
\* run_all returned the Run error
RunAllFailedAfterSuccess ==
    /\ last.op = "run_all"
    /\ ~last.res.ok
    /\ Len(last.calls) = 2
    /\ last.calls[1].res.ok
    /\ last.res.err.kind = "Run"

\* C3: compile for a variant that is not in languages fails with
\* UnknownLanguage and starts no external step (no copy, compiler, build,
\* create_dir_all, chmod or rename), for every variant.
CompileRejectsUndiscovered ==
    (last.op = "compile" /\ ~Contains(bench.languages, last.lang)) =>
        /\ ~last.res.ok
        /\ last.res.err.kind = "UnknownLanguage"
        /\ last.res.err.lang = last.lang
        /\ last.steps = <<>>

\* C3 witness: compile was called for the multi-stage pipeline variant on a
\* benchmark that has other variants but not this one
CompileOfUndiscoveredMoonBit ==
    /\ last.op = "compile"
    /\ last.lang = MoonBit
    /\ bench.languages # <<>>
    /\ ~Contains(bench.languages, MoonBit)
    /\ ~last.res.ok

\* the artifact path as the specification states it: the binary root of the
\* architecture, then <name> for the suffix-less variant, <name>_<suffix>/<name>
\* for the nested variant, <name>_<suffix> for every other variant
StatedArtifactPath(a, name, lang) ==
    LET root == IF a = "x86_64" THEN bin_path_x86 ELSE bin_path_aarch
        suffixed == (name \o "_") \o LangSuffix(lang)
    IN  CASE lang = Scc -> root \o <<name>>
          [] lang = Effekt -> root \o <<suffixed, name>>
          [] OTHER -> root \o <<suffixed>>

\* the steps of the last operation that executed the benchmark binary
ExecSteps == {i \in 1..Len(last.steps) : last.steps[i].step = "exec"}

\* the steps of the last operation that invoked the timing engine
TimingSteps == {i \in 1..Len(last.steps) : last.steps[i].step = "hyperfine"}

\* C4: time_all fails with a Hyperfine error whenever the timing engine could
\* not be started or exited with a non-zero status, and returns success only
\* when the engine was started and exited with status zero.
TimeAllReportsEngineFailure ==
    last.op = "run_hyperfine_all" =>
        /\ \A i \in TimingSteps :
             LET st == last.steps[i].status IN
               (~st.spawned \/ st.code # 0) =>
                   (~last.res.ok /\ last.res.err.kind = "Hyperfine")
        /\ last.res.ok =>
             \E i \in TimingSteps :
                 last.steps[i].status.spawned /\ last.steps[i].status.code = 0

\* C5: run fails with a Run error whenever the process could not be started
\* or exited with a non-zero status, whatever it wrote; it returns the
\* captured output only when the process exited with status zero, and then
\* exactly what was captured.
RunJudgesExitStatus ==
    last.op = "run" =>
        /\ \A i \in ExecSteps :
             LET st == last.steps[i].status IN
               /\ (~st.spawned \/ st.code # 0) =>
                      (~last.res.ok /\ last.res.err.kind = "Run")
               /\ (st.spawned /\ st.code = 0) => last.res = Ok(last.steps[i].output)
        /\ last.res.ok =>
             \E i \in ExecSteps :
                 last.steps[i].status.spawned /\ last.steps[i].status.code = 0

\* C5 witness: the process wrote output and exited with status 1, and run
\* failed with a Run error
RunFailedDespiteOutput ==
    /\ last.op = "run"
    /\ \E i \in ExecSteps :
         /\ last.steps[i].status.spawned
         /\ last.steps[i].status.code = 1
         /\ last.steps[i].output.stdout = Raw("msg")
    /\ ~last.res.ok
    /\ last.res.err.kind = "Run"

\* C6: the argument list of the process that run executes is the run command's
\* own arguments (none for a binary invoked directly; the loader flag and the
\* artifact path for SmlNj) followed by exactly config.test_args in test mode
\* and exactly config.args in benchmark mode; with the default configuration
\* nothing is appended in either mode.
RunAppendsSelectedArguments ==
    last.op = "run" =>
        \A i \in ExecSteps :
            LET cmd == last.steps[i].cmd
                artifact == PathStr(StatedArtifactPath(arch, bench.name, last.lang))
                own == IF last.lang = SmlNj THEN <<"@SMLload", artifact>> ELSE <<>>
                selected == IF last.test THEN bench.config.test_args ELSE bench.config.args
            IN  /\ cmd.program = IF last.lang = SmlNj THEN "sml" ELSE artifact
                /\ cmd.args = own \o selected
                /\ bench.config = ConfigFromFile(None) => cmd.args = own

\* C6 witness: a loader-mediated run in test mode with a configuration whose
\* two argument sequences differ
RunOfLoaderInTestMode ==
    /\ last.op = "run"
    /\ last.lang = SmlNj
    /\ last.test
    /\ ExecSteps # {}
    /\ bench.config.test_args # <<>>
    /\ bench.config.test_args # bench.config.args

\* the variant a directory item stands for, None when it stands for none
VariantOf(item) ==
    IF item.io /\ item.ext.some /\ ToStr(item.ext.v).some
    THEN FromExt(ToStr(item.ext.v).v)
    ELSE None

\* C7: after a successful discover, a variant is in languages if and only if
\* some file of the directory has the extension that maps to it and it is not
\* excluded; files with the configuration extension, with no extension or with
\* an unrecognized one contribute nothing.
DiscoverFindsPresentNotExcluded ==
    (last.op = "new" /\ last.res.ok) =>
        LET items == last.dir.listing.val
            languages == last.res.val.languages
            contributing == {i \in 1..Len(items) :
                               /\ VariantOf(items[i]).some
                               /\ VariantOf(items[i]).v \notin last.exclude_lang}
        IN  /\ \A v \in BenchmarkLanguage :
                 Contains(languages, v) <=>
                     /\ v \notin last.exclude_lang
                     /\ \E i \in 1..Len(items) : VariantOf(items[i]) = Some(v)
            /\ Range(languages) \subseteq BenchmarkLanguage
            /\ Len(languages) <= Cardinality(contributing)

\* C7 witness: a directory with the source of an excluded variant and the
\* source of a variant that is not excluded
DiscoverWithExcludedSource ==
    /\ last.op = "new"
    /\ last.res.ok
    /\ \E i \in 1..Len(last.dir.listing.val) :
         /\ VariantOf(last.dir.listing.val[i]).some
         /\ VariantOf(last.dir.listing.val[i]).v \in last.exclude_lang
    /\ last.res.val.languages # <<>>

\* C8: the artifact path that bin_path returns is the stated function of the
\* benchmark name, the variant and the architecture, and a second call for the
\* same variant returns the same path.
ArtifactPathIsStated ==
    (last.op = "bin_path" /\ last.res.ok) =>
        /\ last.res.val = StatedArtifactPath(arch, bench.name, last.lang)
        /\ (last.prev.some /\ last.prev.v.ok) => last.prev.v.val = last.res.val

\* C8 witness: two successive calls for the nested variant
ArtifactPathOfNestedTwice ==
    /\ last.op = "bin_path"
    /\ last.lang = Effekt
    /\ last.res.ok
    /\ last.prev.some
    /\ last.prev.v.ok

\* the names, in listing order, of the suite root's directories from position
\* i on that are not excluded
RECURSIVE RemainingDirs(_, _, _)
RemainingDirs(items, exclude_bench, i) ==
    IF i > Len(items) THEN <<>>
    ELSE IF items[i].io /\ items[i].is_dir /\ items[i].name.utf8
            /\ items[i].name.text \notin exclude_bench
         THEN <<items[i].name.text>> \o RemainingDirs(items, exclude_bench, i + 1)
         ELSE RemainingDirs(items, exclude_bench, i + 1)

\* C9: load_all never constructs a Benchmark for an excluded name; every entry
\* of the suite root that is not a directory is skipped without an error; the
\* result holds exactly one Benchmark per remaining directory, in listing
\* order.  Stated for the listings load_all can read to the end: every item
\* is read, every directory has a name that is valid text, and the Benchmark
\* of every remaining directory can be constructed.
LoadAllSkipsExcludedAndFiles ==
    (last.op = "load_all" /\ last.suite.ok) =>
        LET items == last.suite.val
            remaining == RemainingDirs(items, last.exclude_bench, 1)
            readable ==
                /\ \A i \in 1..Len(items) :
                     items[i].io /\ (items[i].is_dir => items[i].name.utf8)
                /\ \A j \in 1..Len(remaining) :
                     NewBenchmark(remaining[j], last.disk[remaining[j]],
                                  last.exclude_lang).ok
        IN  /\ \A c \in 1..Len(last.calls) :
                 /\ last.calls[c].name \notin last.exclude_bench
                 /\ items[last.calls[c].index].is_dir
            /\ readable =>
                 /\ last.res.ok
                 /\ Len(last.res.val) = Len(remaining)
                 /\ \A j \in 1..Len(remaining) : last.res.val[j].name = remaining[j]

\* C10: load_all is fail-fast: a failing construction is the last one made, so
\* no Benchmark is constructed for a later entry; load_all returns the error
\* of that construction and none of the Benchmarks constructed before.
LoadAllFailsFast ==
    last.op = "load_all" =>
        \A j \in 1..Len(last.calls) :
            ~last.calls[j].res.ok =>
                /\ j = Len(last.calls)
                /\ \A c \in 1..Len(last.calls) : last.calls[c].index <= last.calls[j].index
                /\ last.res = last.calls[j].res
                /\ ~last.res.ok
                /\ DOMAIN last.res = {"ok", "err"}

\* C10 witness: a Benchmark was constructed, the construction for the next
\* directory failed, and a further directory that is not excluded follows
LoadAllFailedInTheMiddle ==
    /\ last.op = "load_all"
    /\ Len(last.calls) = 2
    /\ last.calls[1].res.ok
    /\ ~last.calls[2].res.ok
    /\ RemainingDirs(last.suite.val, last.exclude_bench, last.calls[2].index + 1) # <<>>

\* what a step asked of the environment: the step without the environment's answer
Request(s) == [f \in DOMAIN s \ {"status", "ok", "captured", "output"} |-> s[f]]

\* the environment answered the step with success
Succeeded(s) ==
    IF s.step \in {"copy", "rename", "create_dir_all"}
    THEN s.ok
    ELSE s.status.spawned /\ s.status.code = 0

\* C11: compile is repeatable.  When compile is called again right after a
\* successful compile of the same variant, the second call asks the
\* environment for the same steps in the same order (same command, same
\* source, same artifact path) as the first, as far as it gets; and when the
\* compiler or build, the permission change, the copy and the move of the
\* second call succeed, the second call succeeds too and has made exactly the
\* steps of the first: ensuring the output directory cannot fail on the
\* directory the first call left.
CompileIsRepeatable ==
    (last.op = "compile" /\ last.prev.some) =>
        LET first == last.prev.v
            second == last.steps
        IN  /\ Len(second) <= Len(first)
            /\ \A k \in 1..Len(second) : Request(second[k]) = Request(first[k])
            /\ (\A k \in 1..Len(second) :
                    second[k].step # "create_dir_all" => Succeeded(second[k]))
                 => (last.res.ok /\ Len(second) = Len(first))

\* C11 witness: the multi-stage pipeline variant was compiled twice in
\* succession and both calls succeeded, the second one moving its artifact
\* onto the one the first call left
CompiledPipelineTwice ==
    /\ last.op = "compile"
    /\ last.lang = MoonBit
    /\ last.prev.some
    /\ last.res.ok
    /\ last.steps[Len(last.steps)].step = "rename"
    /\ last.steps[Len(last.steps)].to = last.prev.v[Len(last.prev.v)].to

\* the command string the specification states for a variant: the artifact
\* path, after the loader invocation for the loader-mediated variant, then
\* every benchmark-mode argument in order, separated by blanks
StatedCallString(lang) ==
    LET artifact == PathStr(StatedArtifactPath(arch, bench.name, lang))
        RECURSIVE WithArgs(_, _)
        WithArgs(str, k) ==
            IF k > Len(bench.config.args) THEN str
            ELSE WithArgs((str \o " ") \o bench.config.args[k], k + 1)
    IN  WithArgs(IF lang = SmlNj THEN "sml @SMLload " \o artifact ELSE artifact, 1)

\* C12: run_hyperfine_all invokes the timing engine at most once, and exactly
\* once when it succeeds; the invocation carries one command string per entry
\* of languages, in order, each the stated command string of its variant,
\* then the repetition count config.runs, the warm-up count 3 and the export
\* path <results-root>/<name>.csv.
TimeAllIssuesOneInvocation ==
    last.op = "run_hyperfine_all" =>
        /\ Cardinality(TimingSteps) <= 1
        /\ last.res.ok => Cardinality(TimingSteps) = 1
        /\ \A i \in TimingSteps :
             LET cmd == last.steps[i].cmd
                 commands == [k \in 1..Len(bench.languages) |->
                                 StatedCallString(bench.languages[k])]
                 export == PathStr(Join(RAW_PATH, bench.name \o ".csv"))
             IN  /\ cmd.program = "hyperfine"
                 /\ cmd.args = (commands \o <<"--runs", ToString(bench.config.runs)>>)
                               \o <<"--warmup", "3", "--export-csv", export>>

\* the kinds of the steps of the last operation, in order
StepKinds == [k \in 1..Len(last.steps) |-> last.steps[k].step]

\* s is a prefix of t
IsPrefix(s, t) == Len(s) <= Len(t) /\ \A k \in 1..Len(s) : s[k] = t[k]

\* a captured stream as the error carries it: its text, the empty string when
\* it is not text
Carried(stream) == IF stream.utf8 THEN stream.text ELSE ""

StepsOf(kind) == {k \in 1..Len(last.steps) : last.steps[k].step = kind}

\* C14: in compile of the post-build fix-up variant the permission change is
\* invoked only after the compiler exited with status zero; when the
\* permission change cannot be started or exits non-zero, compile fails with a
\* PathAccess error; when the compiler fails, no permission change is invoked
\* and compile fails with a Compile error.
FixupFailureIsPathAccess ==
    (last.op = "compile" /\ last.lang = Koka /\ Contains(bench.languages, Koka)) =>
        /\ \A k \in StepsOf("chmod") :
             /\ \E j \in StepsOf("compile") : j < k /\ Succeeded(last.steps[j])
             /\ ~Succeeded(last.steps[k]) =>
                    (~last.res.ok /\ last.res.err.kind = "PathAccess")
        /\ \A j \in StepsOf("compile") :
             ~Succeeded(last.steps[j]) =>
                 /\ StepsOf("chmod") = {}
                 /\ ~last.res.ok
                 /\ last.res.err.kind = "Compile"

\* Path::parent
Parent(p) == SubSeq(p, 1, Len(p) - 1)

\* the directory was ensured to exist, successfully, before step k of the last
\* operation
EnsuredBefore(dir, k) ==
    \E j \in 1..(k - 1) :
        /\ last.steps[j].step = "create_dir_all"
        /\ last.steps[j].path = dir
        /\ last.steps[j].ok

\* C15: compile ensures that a directory exists before it writes into it:
\* every copy into the scratch workspace and every move into the binary root
\* comes after a successful create_dir_all of that directory in the same call.
WritesAfterEnsureDir ==
    last.op = "compile" =>
        /\ \A k \in StepsOf("copy") : EnsuredBefore(Parent(last.steps[k].to), k)
        /\ \A k \in StepsOf("rename") : EnsuredBefore(Parent(last.steps[k].to), k)

\* C16: run for a variant that is not in languages fails with UnknownLanguage
\* and starts nothing: no directory is created, no process is executed.
RunRejectsUndiscovered ==
    (last.op = "run" /\ ~Contains(bench.languages, last.lang)) =>
        /\ ~last.res.ok
        /\ last.res.err.kind = "UnknownLanguage"
        /\ last.steps = <<>>

\* C17: when the compiler of an ordinary variant exits non-zero, compile
\* returns (it does not panic) a Compile error whose stdout and stderr are the
\* bytes the compiler wrote, unchanged, whether or not they are valid text.
CompileErrorKeepsCapturedBytes ==
    (last.op = "compile" /\ last.lang # MoonBit) =>
        \A k \in StepsOf("compile") :
            last.steps[k].captured.some =>
                /\ ~last.res.ok
                /\ last.res.err.kind = "Compile"
                /\ last.res.err.stdout = last.steps[k].captured.v.stdout.text
                /\ last.res.err.stderr = last.steps[k].captured.v.stderr.text

\* C18: Benchmark::new fails with a ReadDir error exactly when the benchmark
\* directory cannot be listed; when the directory is listed and one of its
\* files has an extension that is not valid text, it fails with a PathAccess
\* error; otherwise it succeeds exactly when every entry of the listing could
\* be read, whether or not the configuration file is there, and with the
\* default configuration when it is not; a failing call returns an error and
\* no Benchmark.
DiscoverFailsOnlyOnListing ==
    last.op = "new" =>
        LET listing == last.dir.listing
            items == listing.val
            undecodable == \E i \in 1..Len(items) :
                              /\ items[i].io
                              /\ items[i].ext.some
                              /\ ~items[i].ext.v.utf8
            unreadable == \E i \in 1..Len(items) : ~items[i].io
        IN  /\ (~last.res.ok /\ last.res.err.kind = "ReadDir") <=> ~listing.ok
            /\ (listing.ok /\ undecodable) =>
                   (~last.res.ok /\ last.res.err.kind = "PathAccess")
            /\ listing.ok => (last.res.ok <=> (~undecodable /\ ~unreadable))
            /\ (last.res.ok /\ ~last.dir.config.some) =>
                   last.res.val.config = DefaultConfig
            /\ ~last.res.ok => (DOMAIN last.res = {"ok", "err"} /\ bench = NoBench)

\* C18 witness: a directory without configuration file that holds a source
\* file and then a file whose extension is not valid text; Benchmark::new
\* failed with a PathAccess error
DiscoverOfUndecodableExtension ==
    /\ last.op = "new"
    /\ ~last.dir.config.some
    /\ last.dir.listing.ok
    /\ Len(last.dir.listing.val) = 2
    /\ VariantOf(last.dir.listing.val[1]).some
    /\ last.dir.listing.val[2].io
    /\ last.dir.listing.val[2].ext = Some(Garbled("kk"))
    /\ ~last.res.ok
    /\ last.res.err.kind = "PathAccess"

\* C19: after a successful Benchmark::new, whatever the directory holds, no
\* variant occurs twice in languages.
LanguagesHasNoDuplicates ==
    (last.op = "new" /\ last.res.ok) =>
        LET languages == last.res.val.languages
        IN  \A i, j \in 1..Len(languages) : languages[i] = languages[j] => i = j

\* C20: run_hyperfine_all never returns UnknownLanguage: the variants it tests
\* for membership in languages are the entries of languages.
TimeAllNeverUnknownLanguage ==
    last.op = "run_hyperfine_all" =>
        (last.res.ok \/ last.res.err.kind # "UnknownLanguage")

\* C20 witness: run_hyperfine_all went through the membership test for two
\* entries of languages and invoked the timing engine
TimeAllOfTwoVariants ==
    /\ last.op = "run_hyperfine_all"
    /\ Len(bench.languages) = 2
    /\ TimingSteps # {}
    /\ last.res.ok

====
